---- MODULE Spec2Model ----
(***************************************************************************)
(* Config::init of crates/utils/src/config/mod.rs: command line path       *)
(* resolution, main file load, macro/include partition, include merge and  *)
(* macro substitution (ReplaceMacros for String).                          *)
(*                                                                         *)
(* A Rust String is a sequence of one-character strings, Option<T> is a    *)
(* sequence of length 0 (None) or 1 (Some), a BTreeMap/AHashMap is a       *)
(* function whose domain is its key set.                                   *)
(***************************************************************************)
EXTENDS Naturals, Sequences, FiniteSets, TLC

VARIABLES
    argv,          \* std::env::args().skip(1), the whole list
    argi,          \* position of the args iterator (next token to yield)
    config_path,   \* Option<String>
    found_param,   \* bool
    fs,            \* the file system: path -> file text
    config_keys,   \* config.keys
    includes,      \* AHashSet<String>, the entries not yet iterated
    macros,        \* AHashMap<String, String>
    picked,        \* the AHashSet entry the include loop is at, as inserted
    include,       \* the loop variable `include` (substituted in place)
    target,        \* which String replace_macros was called on
    key,           \* replace_macros' `key` argument
    value,         \* replace_macros' `value`: the rest of the input
    result,        \* replace_macros' `result`: the output buffer
    pc,            \* position in Config::init
    failure,       \* what failed() reported before terminating the process
    loaded,        \* history: the included files read, parsed and merged
    visited        \* history: the keys whose value went through replace_macros

vars == <<argv, argi, config_path, found_param, fs, config_keys, includes,
          macros, picked, include, target, key, value, result, pc, failure,
          loaded, visited>>

\* ---------------------------------------------------------------- bounds

\* Longest value of the exhaustive macro scenarios, in fragments.
MaxTokens == 4
\* Longest command line, in tokens after the program name.
MaxArgs == 2

\* --------------------------------------------------------------- strings

None == <<>>
Some(x) == <<x>>

EmptyMap == [k \in {} |-> <<>>]

MACROS_PREFIX == <<"m", "a", "c", "r", "o", "s", ".">>
INCLUDE_KEY == <<"i", "n", "c", "l", "u", "d", "e", ".", "f", "i", "l", "e", "s">>
INCLUDE_PREFIX == INCLUDE_KEY \o <<".">>
CONFIG_FLAG == <<"-", "-", "c", "o", "n", "f", "i", "g">>
OPEN == <<"%", "{">>
CLOSE == <<"}", "%">>
EQUALS == <<"=">>

\* The characters in use, in ASCII order (the order of String's Ord).
Ascii ==
    <<" ", "%", "-", ".", "1", "2", "3", "=", "A", "a", "c", "d", "e", "f",
      "g", "i", "j", "k", "l", "m", "n", "o", "p", "r", "s", "u", "x", "{",
      "}">>

CharOrd(c) == CHOOSE i \in 1..Len(Ascii) : Ascii[i] = c

SetMin(S) == CHOOSE x \in S : \A y \in S : x <= y

\* `let x = e; F(x)`: F applied to the value of e, e being evaluated once.
Let(e, F(_)) == CHOOSE r \in {F(x) : x \in {e}} : TRUE

\* str::find: the index of the first occurrence of pat in s, 0 when none.
Find(string, pat) ==
    Let(string, LAMBDA s :
        Let({i \in 1..(Len(s) + 1) :
                /\ i + Len(pat) - 1 <= Len(s)
                /\ SubSeq(s, i, i + Len(pat) - 1) = pat},
            LAMBDA hits : IF hits = {} THEN 0 ELSE SetMin(hits)))

contains(s, pat) == Find(s, pat) # 0

\* str::split_once: Some((before, after)) around the first occurrence.
split_once(string, pat) ==
    Let(string, LAMBDA s :
        Let(Find(s, pat), LAMBDA i :
            IF i = 0 THEN None
            ELSE Some(<<SubSeq(s, 1, i - 1), SubSeq(s, i + Len(pat), Len(s))>>)))

starts_with(s, p) == Len(p) <= Len(s) /\ SubSeq(s, 1, Len(p)) = p

strip_prefix(s, p) ==
    IF starts_with(s, p) THEN Some(SubSeq(s, Len(p) + 1, Len(s))) ELSE None

\* str::trim: leading and trailing whitespace removed.
trim(s) ==
    Let({i \in 1..Len(s) : s[i] # " "}, LAMBDA inked :
        IF inked = {} THEN <<>>
        ELSE SubSeq(s, SetMin(inked),
                    CHOOSE j \in inked : \A i \in inked : i <= j))

to_ascii_lowercase(s) == [i \in 1..Len(s) |-> IF s[i] = "A" THEN "a" ELSE s[i]]

\* Ord for String: lexicographic by character.
KeyLess(a, b) ==
    Let({i \in 1..(IF Len(a) < Len(b) THEN Len(a) ELSE Len(b)) : a[i] # b[i]},
        LAMBDA diff :
            IF diff = {} THEN Len(a) < Len(b)
            ELSE Let(SetMin(diff), LAMBDA i : CharOrd(a[i]) < CharOrd(b[i])))

\* The first key a BTreeMap iteration over the keys S yields.
FirstKey(S) ==
    Let(S, LAMBDA ks : CHOOSE k \in ks : \A o \in ks : o = k \/ KeyLess(k, o))

\* BTreeMap::insert / AHashMap::insert.
Insert(map, k, v) ==
    Let(map, LAMBDA m : [x \in DOMAIN m \cup {k} |-> IF x = k THEN v ELSE m[x]])

\* ----------------------------------------------------------- file system

\* A file's text is kept as what the key=value parser makes of it: a parse
\* error (valid = FALSE) or its flat key -> value map.
File(ks) == [valid |-> TRUE, keys |-> ks]
Garbled == [valid |-> FALSE, keys |-> EmptyMap]

\* std::fs::read_to_string
read_to_string(path) == IF path \in DOMAIN fs THEN Some(fs[path]) ELSE None

\* Config::parse(&mut self, text): the text's keys go into self.keys, a key
\* already present taking the new value.
Parse(ks, text) ==
    IF ~text.valid THEN None
    ELSE Some([k \in DOMAIN ks \cup DOMAIN text.keys |->
                 IF k \in DOMAIN text.keys THEN text.keys[k] ELSE ks[k]])

\* ------------------------------------------------------- macro extraction

\* The i-th key a BTreeMap iteration over the keys S yields.
KeyAt(S, i) ==
    Let(S, LAMBDA ks : CHOOSE k \in ks : Cardinality({o \in ks : KeyLess(o, k)}) = i - 1)

\* Mutant of Extract: no `include.files.` branch, the key stays a plain key.
RECURSIVE Extract_keep(_, _, _)
Extract_keep(cfg, i, acc) ==
    IF i > Cardinality(DOMAIN cfg) THEN acc
    ELSE Let(acc, LAMBDA a :
         Let(KeyAt(DOMAIN cfg, i), LAMBDA k :
         Let(strip_prefix(k, MACROS_PREFIX), LAMBDA macro_name :
             Extract_keep(cfg, i + 1,
                 IF macro_name # None
                 THEN [a EXCEPT !.macros =
                          Insert(@, to_ascii_lowercase(macro_name[1]), cfg[k])]
                 ELSE [a EXCEPT !.keys = Insert(@, k, cfg[k])]))))

\* The partition loop over config.keys, in BTreeMap order, from its i-th
\* iteration on.
RECURSIVE Extract(_, _, _)
Extract(cfg, i, acc) ==
    IF i > Cardinality(DOMAIN cfg) THEN acc
    ELSE Let(acc, LAMBDA a :
         Let(KeyAt(DOMAIN cfg, i), LAMBDA k :
         Let(strip_prefix(k, MACROS_PREFIX), LAMBDA macro_name :
             Extract(cfg, i + 1,
                 IF macro_name # None
                 THEN [a EXCEPT !.macros =
                          Insert(@, to_ascii_lowercase(macro_name[1]), cfg[k])]
                 ELSE IF starts_with(k, INCLUDE_PREFIX)
                 THEN [a EXCEPT !.includes = @ \cup {cfg[k]}]
                 ELSE [a EXCEPT !.keys = Insert(@, k, cfg[k])]))))

Partition(config) ==
    Let(config, LAMBDA cfg :
        Extract(cfg, 1, [keys |-> EmptyMap, includes |-> {}, macros |-> EmptyMap]))

\* ------------------------------------------------------- replace_macros

\* Mutants of loop_body. lenient: an unknown macro is replaced by nothing.
\* rescan: the macro's text is put back in front of the rest of the input.
\* stuck: `value = rest` is left out.
loop_body_lenient(v, r, ms) ==
    Let(split_once(v, OPEN), LAMBDA open :
        IF open = None
        THEN [st |-> "break", value |-> v, result |-> r \o v, what |-> <<>>]
        ELSE Let(split_once(open[1][2], CLOSE), LAMBDA close :
            IF close = None
            THEN [st |-> "unterminated", value |-> v,
                  result |-> r \o open[1][1], what |-> v]
            ELSE [st |-> "next", value |-> close[1][2],
                  result |-> (r \o open[1][1]) \o
                      (IF to_ascii_lowercase(close[1][1]) \in DOMAIN ms
                       THEN ms[to_ascii_lowercase(close[1][1])] ELSE <<>>),
                  what |-> close[1][1]]))

loop_body_rescan(v, r, ms) ==
    Let(split_once(v, OPEN), LAMBDA open :
        IF open = None
        THEN [st |-> "break", value |-> v, result |-> r \o v, what |-> <<>>]
        ELSE Let(split_once(open[1][2], CLOSE), LAMBDA close :
            IF close = None
            THEN [st |-> "unterminated", value |-> v,
                  result |-> r \o open[1][1], what |-> v]
            ELSE IF to_ascii_lowercase(close[1][1]) \in DOMAIN ms
            THEN [st |-> "next",
                  value |-> ms[to_ascii_lowercase(close[1][1])] \o close[1][2],
                  result |-> r \o open[1][1], what |-> close[1][1]]
            ELSE [st |-> "unknown", value |-> v,
                  result |-> r \o open[1][1], what |-> close[1][1]]))

loop_body_stuck(v, r, ms) ==
    Let(split_once(v, OPEN), LAMBDA open :
        IF open = None
        THEN [st |-> "break", value |-> v, result |-> r \o v, what |-> <<>>]
        ELSE Let(split_once(open[1][2], CLOSE), LAMBDA close :
            IF close = None
            THEN [st |-> "unterminated", value |-> v,
                  result |-> r \o open[1][1], what |-> v]
            ELSE IF to_ascii_lowercase(close[1][1]) \in DOMAIN ms
            THEN [st |-> "next", value |-> v,
                  result |-> (r \o open[1][1]) \o ms[to_ascii_lowercase(close[1][1])],
                  what |-> close[1][1]]
            ELSE [st |-> "unknown", value |-> v,
                  result |-> r \o open[1][1], what |-> close[1][1]]))

\* One iteration of replace_macros' loop on (value, result).
loop_body(v, r, ms) ==
    Let(split_once(v, OPEN), LAMBDA open :
        IF open = None
        THEN [st |-> "break", value |-> v, result |-> r \o v, what |-> <<>>]
        ELSE Let(split_once(open[1][2], CLOSE), LAMBDA close :
            LET suffix == open[1][1]
            IN  IF close = None
                THEN [st |-> "unterminated", value |-> v,
                      result |-> r \o suffix, what |-> v]
                ELSE LET macro_name == close[1][1]
                         rest == close[1][2]
                         name == to_ascii_lowercase(macro_name)
                     IN  IF name \in DOMAIN ms
                         THEN [st |-> "next", value |-> rest,
                               result |-> (r \o suffix) \o ms[name],
                               what |-> macro_name]
                         ELSE [st |-> "unknown", value |-> v,
                               result |-> r \o suffix, what |-> macro_name]))

\* The whole of replace_macros on one String: the loop run to its end.
RECURSIVE run_loop(_, _, _)
run_loop(v, r, ms) ==
    LET it == loop_body(v, r, ms)
    IN  IF it.st = "next" THEN run_loop(it.value, it.result, ms) ELSE it

replace_macros(s, ms) ==
    IF contains(s, OPEN) THEN run_loop(s, <<>>, ms)
    ELSE [st |-> "break", value |-> s, result |-> s, what |-> <<>>]

\* ------------------------------------------------------------------ init

NoFailure == [kind |-> "none", what |-> <<>>, key |-> <<>>]

\* failed(): the message is printed and the process exits.
Fail(kind, what, k) ==
    /\ pc' = "failed"
    /\ failure' = [kind |-> kind, what |-> what, key |-> k]

Scanning == pc = "args" /\ config_path = None /\ argi <= Len(argv)

\* --config=<value>: the value, trimmed, is the path; the loop breaks.
ArgConfigEquals ==
    /\ Scanning
    /\ LET kv == split_once(argv[argi], EQUALS)
       IN  /\ kv # None
           /\ starts_with(kv[1][1], CONFIG_FLAG)
           /\ config_path' = Some(trim(kv[1][2]))
    /\ argi' = argi + 1
    /\ UNCHANGED <<argv, found_param, fs, config_keys, includes, macros,
                   picked, include, target, key, value, result, pc, failure,
                   loaded, visited>>

\* <key>=<value> with another key.
ArgInvalidKey ==
    /\ Scanning
    /\ LET kv == split_once(argv[argi], EQUALS)
       IN  /\ kv # None
           /\ ~starts_with(kv[1][1], CONFIG_FLAG)
           /\ Fail("InvalidArgument", kv[1][1], <<>>)
    /\ argi' = argi + 1
    /\ UNCHANGED <<argv, config_path, found_param, fs, config_keys, includes,
                   macros, picked, include, target, key, value, result,
                   loaded, visited>>

\* The token after the flag is the path; the loop breaks.
ArgValue ==
    /\ Scanning
    /\ split_once(argv[argi], EQUALS) = None
    /\ found_param
    /\ config_path' = Some(argv[argi])
    /\ argi' = argi + 1
    /\ UNCHANGED <<argv, found_param, fs, config_keys, includes, macros,
                   picked, include, target, key, value, result, pc, failure,
                   loaded, visited>>

\* The flag on its own.
ArgFlag ==
    /\ Scanning
    /\ split_once(argv[argi], EQUALS) = None
    /\ ~found_param
    /\ starts_with(argv[argi], CONFIG_FLAG)
    /\ found_param' = TRUE
    /\ argi' = argi + 1
    /\ UNCHANGED <<argv, config_path, fs, config_keys, includes, macros,
                   picked, include, target, key, value, result, pc, failure,
                   loaded, visited>>

ArgInvalid ==
    /\ Scanning
    /\ split_once(argv[argi], EQUALS) = None
    /\ ~found_param
    /\ ~starts_with(argv[argi], CONFIG_FLAG)
    /\ Fail("InvalidArgument", argv[argi], <<>>)
    /\ argi' = argi + 1
    /\ UNCHANGED <<argv, config_path, found_param, fs, config_keys, includes,
                   macros, picked, include, target, key, value, result,
                   loaded, visited>>

\* The scan is over (skipped, broken out of, or out of tokens).
Scanned == pc = "args" /\ ~Scanning

MissingParameter ==
    /\ Scanned
    /\ config_path = None
    /\ Fail("MissingParameter", <<>>, <<>>)
    /\ UNCHANGED <<argv, argi, config_path, found_param, fs, config_keys,
                   includes, macros, picked, include, target, key, value,
                   result, loaded, visited>>

MainUnreadable ==
    /\ Scanned
    /\ config_path # None
    /\ read_to_string(config_path[1]) = None
    /\ Fail("IoError", config_path[1], <<>>)
    /\ UNCHANGED <<argv, argi, config_path, found_param, fs, config_keys,
                   includes, macros, picked, include, target, key, value,
                   result, loaded, visited>>

MainInvalid ==
    /\ Scanned
    /\ config_path # None
    /\ read_to_string(config_path[1]) # None
    /\ Parse(EmptyMap, read_to_string(config_path[1])[1]) = None
    /\ Fail("ParseError", config_path[1], <<>>)
    /\ UNCHANGED <<argv, argi, config_path, found_param, fs, config_keys,
                   includes, macros, picked, include, target, key, value,
                   result, loaded, visited>>

\* The main file is read and parsed into Config::default(), its keys are
\* partitioned and the plain ones become config.keys.
LoadMain ==
    /\ Scanned
    /\ config_path # None
    /\ read_to_string(config_path[1]) # None
    /\ LET parsed == Parse(EmptyMap, read_to_string(config_path[1])[1])
       IN  /\ parsed # None
           /\ config_keys' = Partition(parsed[1]).keys
           /\ includes' = Partition(parsed[1]).includes
           /\ macros' = Partition(parsed[1]).macros
    /\ pc' = "include"
    /\ UNCHANGED <<argv, argi, config_path, found_param, fs, picked, include,
                   target, key, value, result, failure, loaded, visited>>

\* Mutant of IncludeNext: the entry is not consumed, the loop can yield it
\* again.
IncludeNext_again ==
    /\ pc = "include"
    /\ \E inc \in includes :
          /\ picked' = inc
          /\ include' = inc
          /\ value' = inc
          /\ pc' = IF contains(inc, OPEN) THEN "loop" ELSE "read"
    /\ target' = "include"
    /\ key' = INCLUDE_KEY
    /\ result' = <<>>
    /\ UNCHANGED <<argv, argi, config_path, found_param, fs, config_keys,
                   includes, macros, failure, loaded, visited>>

\* `for mut include in includes`: the set yields its entries in any order;
\* include.replace_macros("include.files", &macros) is entered.
IncludeNext ==
    /\ pc = "include"
    /\ \E inc \in includes :
          /\ includes' = includes \ {inc}
          /\ picked' = inc
          /\ include' = inc
          /\ value' = inc
          /\ pc' = IF contains(inc, OPEN) THEN "loop" ELSE "read"
    /\ target' = "include"
    /\ key' = INCLUDE_KEY
    /\ result' = <<>>
    /\ UNCHANGED <<argv, argi, config_path, found_param, fs, config_keys,
                   macros, failure, loaded, visited>>

IncludeUnreadable ==
    /\ pc = "read"
    /\ read_to_string(include) = None
    /\ Fail("IoError", include, <<>>)
    /\ UNCHANGED <<argv, argi, config_path, found_param, fs, config_keys,
                   includes, macros, picked, include, target, key, value,
                   result, loaded, visited>>

IncludeInvalid ==
    /\ pc = "read"
    /\ read_to_string(include) # None
    /\ Parse(config_keys, read_to_string(include)[1]) = None
    /\ Fail("ParseError", include, <<>>)
    /\ UNCHANGED <<argv, argi, config_path, found_param, fs, config_keys,
                   includes, macros, picked, include, target, key, value,
                   result, loaded, visited>>

\* Mutant of IncludeMerge: a key config already has keeps its value.
IncludeMerge_keep ==
    /\ pc = "read"
    /\ read_to_string(include) # None
    /\ LET parsed == Parse(config_keys, read_to_string(include)[1])
       IN  /\ parsed # None
           /\ config_keys' = [k \in DOMAIN parsed[1] |->
                                IF k \in DOMAIN config_keys THEN config_keys[k]
                                ELSE parsed[1][k]]
    /\ loaded' = Append(loaded, [include |-> picked, path |-> include])
    /\ pc' = "include"
    /\ UNCHANGED <<argv, argi, config_path, found_param, fs, includes, macros,
                   picked, include, target, key, value, result, failure,
                   visited>>

\* Mutant of IncludeMerge: the included file's `macros.` keys define macros.
IncludeMerge_macros ==
    /\ pc = "read"
    /\ read_to_string(include) # None
    /\ LET parsed == Parse(config_keys, read_to_string(include)[1])
           extra == Partition(read_to_string(include)[1].keys).macros
       IN  /\ parsed # None
           /\ config_keys' = parsed[1]
           /\ macros' = [n \in DOMAIN macros \cup DOMAIN extra |->
                           IF n \in DOMAIN extra THEN extra[n] ELSE macros[n]]
    /\ loaded' = Append(loaded, [include |-> picked, path |-> include])
    /\ pc' = "include"
    /\ UNCHANGED <<argv, argi, config_path, found_param, fs, includes,
                   picked, include, target, key, value, result, failure,
                   visited>>

\* The included file is parsed into the same config.
IncludeMerge ==
    /\ pc = "read"
    /\ read_to_string(include) # None
    /\ LET parsed == Parse(config_keys, read_to_string(include)[1])
       IN  /\ parsed # None
           /\ config_keys' = parsed[1]
    /\ loaded' = Append(loaded, [include |-> picked, path |-> include])
    /\ pc' = "include"
    /\ UNCHANGED <<argv, argi, config_path, found_param, fs, includes, macros,
                   picked, include, target, key, value, result, failure,
                   visited>>

\* Mutant of IncludesDone: config is returned without the substitution.
IncludesDone_skip ==
    /\ pc = "include"
    /\ includes = {}
    /\ pc' = "done"
    /\ UNCHANGED <<argv, argi, config_path, found_param, fs, config_keys,
                   includes, macros, picked, include, target, key, value,
                   result, failure, loaded, visited>>

\* The include loop is over.
IncludesDone ==
    /\ pc = "include"
    /\ includes = {}
    /\ pc' = "replace"
    /\ UNCHANGED <<argv, argi, config_path, found_param, fs, config_keys,
                   includes, macros, picked, include, target, key, value,
                   result, failure, loaded, visited>>

Unvisited == {k \in DOMAIN config_keys : \A i \in 1..Len(visited) : visited[i] # k}

\* `for (key, value) in &mut config.keys`: value.replace_macros(key, &macros)
\* is entered for the next key in order.
ReplaceNext ==
    /\ pc = "replace"
    /\ Unvisited # {}
    /\ LET k == FirstKey(Unvisited)
       IN  /\ key' = k
           /\ visited' = Append(visited, k)
           /\ value' = config_keys[k]
           /\ pc' = IF contains(config_keys[k], OPEN) THEN "loop" ELSE "replace"
    /\ target' = "value"
    /\ result' = <<>>
    /\ UNCHANGED <<argv, argi, config_path, found_param, fs, config_keys,
                   includes, macros, picked, include, failure, loaded>>

\* A reference was found and its macro is defined.
LoopReplace ==
    /\ pc = "loop"
    /\ loop_body(value, result, macros).st = "next"
    /\ value' = loop_body(value, result, macros).value
    /\ result' = loop_body(value, result, macros).result
    /\ UNCHANGED <<argv, argi, config_path, found_param, fs, config_keys,
                   includes, macros, picked, include, target, key, pc,
                   failure, loaded, visited>>

LoopUnknown ==
    /\ pc = "loop"
    /\ loop_body(value, result, macros).st = "unknown"
    /\ result' = loop_body(value, result, macros).result
    /\ Fail("UnknownMacro", loop_body(value, result, macros).what, key)
    /\ UNCHANGED <<argv, argi, config_path, found_param, fs, config_keys,
                   includes, macros, picked, include, target, key, value,
                   loaded, visited>>

LoopUnterminated ==
    /\ pc = "loop"
    /\ loop_body(value, result, macros).st = "unterminated"
    /\ result' = loop_body(value, result, macros).result
    /\ Fail("UnterminatedMacro", loop_body(value, result, macros).what, key)
    /\ UNCHANGED <<argv, argi, config_path, found_param, fs, config_keys,
                   includes, macros, picked, include, target, key, value,
                   loaded, visited>>

\* No "%{" is left: the tail is appended and `*self = result`.
LoopBreak ==
    /\ pc = "loop"
    /\ loop_body(value, result, macros).st = "break"
    /\ result' = loop_body(value, result, macros).result
    /\ IF target = "include"
       THEN /\ include' = result'
            /\ pc' = "read"
            /\ UNCHANGED config_keys
       ELSE /\ config_keys' = [config_keys EXCEPT ![key] = result']
            /\ pc' = "replace"
            /\ UNCHANGED include
    /\ UNCHANGED <<argv, argi, config_path, found_param, fs, includes, macros,
                   picked, target, key, value, failure, loaded, visited>>

\* Every value went through replace_macros: config is returned.
Return ==
    /\ pc = "replace"
    /\ Unvisited = {}
    /\ pc' = "done"
    /\ UNCHANGED <<argv, argi, config_path, found_param, fs, config_keys,
                   includes, macros, picked, include, target, key, value,
                   result, failure, loaded, visited>>

Next ==
    \/ ArgConfigEquals
    \/ ArgInvalidKey
    \/ ArgValue
    \/ ArgFlag
    \/ ArgInvalid
    \/ MissingParameter
    \/ MainUnreadable
    \/ MainInvalid
    \/ LoadMain
    \/ IncludeNext
    \/ IncludeUnreadable
    \/ IncludeInvalid
    \/ IncludeMerge
    \/ IncludesDone
    \/ ReplaceNext
    \/ LoopReplace
    \/ LoopUnknown
    \/ LoopUnterminated
    \/ LoopBreak
    \/ Return

\* ------------------------------------------------------- initial states

\* The state Config::init starts from: nothing read, no local assigned.
Start(args, path, files) ==
    /\ argv = args
    /\ argi = 1
    /\ config_path = path
    /\ found_param = FALSE
    /\ fs = files
    /\ config_keys = EmptyMap
    /\ includes = {}
    /\ macros = EmptyMap
    /\ picked = <<>>
    /\ include = <<>>
    /\ target = "none"
    /\ key = <<>>
    /\ value = <<>>
    /\ result = <<>>
    /\ pc = "args"
    /\ failure = NoFailure
    /\ loaded = <<>>
    /\ visited = <<>>

RECURSIVE Flatten(_)
Flatten(ts) == IF ts = <<>> THEN <<>> ELSE Head(ts) \o Flatten(Tail(ts))

SeqsUpTo(S, n) == UNION {[1..m -> S] : m \in 0..n}

\* An optional entry of a file: key k with value opt[1], or nothing.
Entry(k, opt) == IF opt = None THEN EmptyMap ELSE k :> opt[1]
Optional(S) == {None} \cup {Some(v) : v \in S}

MainPath == <<"m">>
PathF == <<"f">>
PathG == <<"g">>
PathN == <<"n">>
PathP == <<"p">>
KeyK == <<"k">>
KeyJ == <<"j">>
KeyInc1 == INCLUDE_PREFIX \o <<"1">>
KeyInc2 == INCLUDE_PREFIX \o <<"2">>
KeyMacroA == MACROS_PREFIX \o <<"a">>
KeyMacroUpperA == MACROS_PREFIX \o <<"A">>
KeyMacroAA == MACROS_PREFIX \o <<"a", "a">>
RefA == OPEN \o <<"a">> \o CLOSE
RefAA == OPEN \o <<"a", "a">> \o CLOSE

\* Command lines: every list of at most MaxArgs of these tokens.
ArgTokens ==
    { CONFIG_FLAG,
      CONFIG_FLAG \o EQUALS \o PathP,
      CONFIG_FLAG \o EQUALS \o <<" ">> \o PathP \o <<" ">>,
      CONFIG_FLAG \o <<"x">>,
      PathP,
      PathP \o EQUALS \o PathP,
      <<" ">> \o PathP,
      <<"-", "x">> }

InitArgs ==
    \E args \in SeqsUpTo(ArgTokens, MaxArgs), path \in Optional({MainPath}),
       p \in {File(KeyK :> <<"2">>), Garbled} :
        Start(args, path, (MainPath :> File(KeyK :> <<"1">>)) @@ (PathP :> p))

\* Main files with includes: every combination of these entries, with every
\* combination of these contents of the files f and g (n does not exist).
FilesF ==
    { File(KeyK :> <<"2">>),
      File(KeyK :> RefA),
      File((KeyMacroAA :> <<"1">>) @@ (KeyJ :> RefAA)),
      File((KeyInc1 :> PathG) @@ (KeyMacroA :> <<"2">>)),
      Garbled }

FilesG ==
    { File(KeyK :> <<"3">>),
      File(KeyJ :> <<"3">>),
      File(KeyK :> RefA \o RefAA) }

InitFiles ==
    \E ma \in Optional({PathF}), mu \in Optional({PathG}),
       i1 \in Optional({PathF, PathG, PathN, RefA, OPEN \o PathF}),
       i2 \in Optional({PathF, PathG, RefA}),
       k \in Optional({<<"1">>, RefA}),
       f \in FilesF, g \in FilesG :
        Start(<<>>, Some(MainPath),
              (MainPath :> File(Entry(KeyMacroA, ma) @@ Entry(KeyMacroUpperA, mu)
                                @@ Entry(KeyInc1, i1) @@ Entry(KeyInc2, i2)
                                @@ Entry(KeyK, k)))
              @@ (PathF :> f) @@ (PathG :> g))

\* Macro scenarios: one plain key whose value is any string of at most
\* MaxTokens of these fragments, under each of these macro definitions.
Fragments == {OPEN, CLOSE, <<"a">>, <<"A">>, <<"%">>, <<"{">>}

MacroDefs ==
    { EmptyMap,
      KeyMacroA :> <<"a">>,
      KeyMacroA :> <<>>,
      KeyMacroA :> <<"%">>,
      KeyMacroA :> <<"{">>,
      KeyMacroA :> RefA,
      (KeyMacroA :> RefAA) @@ (KeyMacroAA :> <<"a">>) }

InitValues ==
    \E ts \in SeqsUpTo(Fragments, MaxTokens), defs \in MacroDefs :
        Start(<<>>, Some(MainPath),
              MainPath :> File(defs @@ (KeyK :> Flatten(ts))))

Init == InitArgs \/ InitFiles \/ InitValues

Spec == Init /\ [][Next]_vars

\* Config::init is one sequential run to completion: a step that can be
\* taken is taken.
FairSpec == Spec /\ WF_vars(Next)

\* ------------------------------------------------- terms of the claims

\* The main file as parsed, and what the partition is to make of it.
MainKeys == fs[config_path[1]].keys

Directive(k) == starts_with(k, MACROS_PREFIX) \/ starts_with(k, INCLUDE_PREFIX)

MainPlain == [k \in {x \in DOMAIN MainKeys : ~Directive(x)} |-> MainKeys[k]]

MainIncludes == {MainKeys[k] : k \in {x \in DOMAIN MainKeys : starts_with(x, INCLUDE_PREFIX)}}

MacroNameOf(k) == to_ascii_lowercase(SubSeq(k, Len(MACROS_PREFIX) + 1, Len(k)))

\* name -> the value of the last `macros.` key (in key order) with that name.
MainMacroTable ==
    LET mkeys == {k \in DOMAIN MainKeys : starts_with(k, MACROS_PREFIX)}
    IN  [n \in {MacroNameOf(k) : k \in mkeys} |->
            MainKeys[CHOOSE k \in mkeys :
                        /\ MacroNameOf(k) = n
                        /\ \A o \in mkeys :
                              MacroNameOf(o) = n => (o = k \/ KeyLess(o, k))]]

\* The keys of the i-th merged included file.
FileKeys(i) == fs[loaded[i].path].keys

\* The working set before substitution: each key with the value of the last
\* merged file that defines it, else the main file's.
WorkingSet ==
    LET n == Len(loaded)
        dom == DOMAIN MainPlain \cup UNION {DOMAIN FileKeys(i) : i \in 1..n}
    IN  [k \in dom |->
            LET defs == {i \in 1..n : k \in DOMAIN FileKeys(i)}
            IN  IF defs = {} THEN MainPlain[k]
                ELSE FileKeys(CHOOSE i \in defs : \A j \in defs : j <= i)[k]]

OpensAt(v, i) == i + 1 <= Len(v) /\ v[i] = "%" /\ v[i + 1] = "{"
ClosesAt(v, j) == j + 1 <= Len(v) /\ v[j] = "}" /\ v[j + 1] = "%"

NextOpen(v, from) ==
    LET S == {i \in from..Len(v) : OpensAt(v, i)}
    IN  IF S = {} THEN 0 ELSE SetMin(S)

NextClose(v, from) ==
    LET S == {j \in from..Len(v) : ClosesAt(v, j)}
    IN  IF S = {} THEN 0 ELSE SetMin(S)

\* The references of v as positions in v: the first "%{" at or after `from`,
\* its name up to the next "}%", then on from the character after that "}%".
\* fault: the first reference that is unterminated or names no macro of ms;
\* out: the literal text with each reference replaced by its macro's value;
\* used: the macro names referenced.
RECURSIVE Scan(_, _, _)
Scan(v, from, ms) ==
    LET i == NextOpen(v, from)
        j == NextClose(v, i + 2)
        name == SubSeq(v, i + 2, j - 1)
        tail == SubSeq(v, from, Len(v))
    IN  IF i = 0
        THEN [fault |-> "ok", out |-> tail, what |-> <<>>, used |-> {}]
        ELSE IF j = 0
        THEN [fault |-> "unterminated", out |-> <<>>, what |-> tail, used |-> {}]
        ELSE IF to_ascii_lowercase(name) \notin DOMAIN ms
        THEN [fault |-> "unknown", out |-> <<>>, what |-> name, used |-> {}]
        ELSE LET rec == Scan(v, j + 2, ms)
             IN  [fault |-> rec.fault,
                  out |-> SubSeq(v, from, i - 1) \o ms[to_ascii_lowercase(name)] \o rec.out,
                  what |-> rec.what,
                  used |-> {to_ascii_lowercase(name)} \cup rec.used]

\* v contains "%{" followed later by "}%".
Unresolved(v) ==
    \E i \in 1..Len(v), j \in 1..Len(v) : OpensAt(v, i) /\ ClosesAt(v, j) /\ i + 2 <= j

\* v contains, anywhere, a "%{" with no following "}%" or a "%{name}%" whose
\* lowercased name is not in ms.
BadReference(v, ms) ==
    \E i \in 1..Len(v) :
        /\ OpensAt(v, i)
        /\ \/ NextClose(v, i + 2) = 0
           \/ to_ascii_lowercase(SubSeq(v, i + 2, NextClose(v, i + 2) - 1)) \notin DOMAIN ms

IsSuffix(t, s) == Len(t) <= Len(s) /\ SubSeq(s, Len(s) - Len(t) + 1, Len(s)) = t

AfterPartition == pc \in {"include", "read", "loop", "replace", "done"}

\* ---------------------------------------------------------------- claims

\* C1 as stated: when Config::init returns, no key of the Config begins with
\* `macros.` or `include.files.`, also when an included file holds such keys.
C1_NoDirectiveKeys ==
    pc = "done" => \A k \in DOMAIN config_keys : ~Directive(k)

\* C1 as amended: the main file's `macros.` and `include.files.` keys never
\* reach config.keys; a key of config.keys begins with one of the prefixes
\* only if a merged included file defines it.
C1_DirectiveKeysOnlyFromIncludes ==
    \A k \in DOMAIN config_keys :
        Directive(k) => \E i \in 1..Len(loaded) : k \in DOMAIN FileKeys(i)

\* init returned; the main file had macro and include keys, all consumed,
\* and an included file brought a directive key of its own.
C1_Witness ==
    /\ pc = "done"
    /\ \E k \in DOMAIN MainKeys : starts_with(k, MACROS_PREFIX)
    /\ \E k \in DOMAIN MainKeys : starts_with(k, INCLUDE_PREFIX)
    /\ \A k \in DOMAIN MainKeys : Directive(k) => k \notin DOMAIN config_keys
    /\ \E k \in DOMAIN config_keys : Directive(k)

\* C2 as stated: when Config::init returns, no value holds "%{" followed
\* later by "}%", also when a macro's replacement text holds such text.
C2_NoUnresolvedReference ==
    pc = "done" => \A k \in DOMAIN config_keys : ~Unresolved(config_keys[k])

\* C2 as amended: when Config::init returns, a value holds "%{" followed
\* later by "}%" only if one of the macros it referenced has a replacement
\* text that is empty or contains `%` or `{`.
C2_UnresolvedOnlyFromMacroText ==
    pc = "done" =>
        \A k \in DOMAIN config_keys :
            Unresolved(config_keys[k]) =>
                \E n \in Scan(WorkingSet[k], 1, macros).used :
                    \/ macros[n] = <<>>
                    \/ \E i \in 1..Len(macros[n]) : macros[n][i] \in {"%", "{"}

\* init returned a value whose references were all replaced.
C2_Witness ==
    /\ pc = "done"
    /\ \E k \in DOMAIN config_keys :
          /\ Scan(WorkingSet[k], 1, macros).used # {}
          /\ ~Unresolved(config_keys[k])

\* C3: when Config::init returns, each key has the macro-substituted value
\* of the most recently merged included file that defines it, and the main
\* file's value only when no merged file defines it.
C3_LastWriteWins ==
    pc = "done" =>
        /\ DOMAIN config_keys = DOMAIN WorkingSet
        /\ \A k \in DOMAIN config_keys :
              config_keys[k] = replace_macros(WorkingSet[k], macros).result

\* init returned after merging two files that both redefine a main file key,
\* the three values differing; the later file's value is the final one.
C3_Witness ==
    /\ pc = "done"
    /\ Len(loaded) >= 2
    /\ \E k \in DOMAIN MainPlain :
          /\ k \in DOMAIN FileKeys(1) /\ k \in DOMAIN FileKeys(Len(loaded))
          /\ FileKeys(1)[k] # FileKeys(Len(loaded))[k]
          /\ MainPlain[k] # FileKeys(1)[k]
          /\ MainPlain[k] # FileKeys(Len(loaded))[k]
          /\ config_keys[k] = FileKeys(Len(loaded))[k]

\* C4 as stated (its general form): each file path is loaded at most once
\* per init.
C4_EachPathLoadedOnce ==
    \A i, j \in 1..Len(loaded) : i # j => loaded[i].path # loaded[j].path

\* C4 as amended: each include value (the path string before substitution)
\* of the main file is loaded at most once per init, whatever the number of
\* keys carrying it, and exactly once when init returns.
C4_EachIncludeValueLoadedOnce ==
    /\ \A i, j \in 1..Len(loaded) : i # j => loaded[i].include # loaded[j].include
    /\ \A i \in 1..Len(loaded) : loaded[i].include \in MainIncludes
    /\ pc = "done" => {loaded[i].include : i \in 1..Len(loaded)} = MainIncludes

\* init returned; two include keys of the main file carried the same value
\* and one file was loaded.
C4_Witness ==
    /\ pc = "done"
    /\ KeyInc1 \in DOMAIN MainKeys /\ KeyInc2 \in DOMAIN MainKeys
    /\ MainKeys[KeyInc1] = MainKeys[KeyInc2]
    /\ Len(loaded) = 1

\* Tokens that can stand for a path on the command line.
PathTokens == {t \in ArgTokens : t[1] # "-"}

\* C5: with no path pre-supplied, [--config=v] resolves the path to v
\* trimmed and [--config, v] resolves it to v, whatever characters v holds.
C5_BothFormsResolve ==
    \A v \in PathTokens :
        /\ (argv = <<CONFIG_FLAG \o EQUALS \o v>> /\ argi = 2)
              => config_path = Some(trim(v))
        /\ (argv = <<CONFIG_FLAG, v>> /\ argi = 3)
              => config_path = Some(v)

\* The equals form of a token, or the flag on its own.
IsConfigToken(t) == t = CONFIG_FLAG \/ starts_with(t, CONFIG_FLAG \o EQUALS)

\* The token, or for <key>=<value> its key, as the message names it.
NamedAs(t) == {t} \cup {kv[1][1] : kv \in {x \in {split_once(t, EQUALS)} : x # None}}

\* C7: with no path pre-supplied, a first token that is neither
\* --config=<value> nor --config is a fatal usage error naming it, a scan that
\* ends without a path is a fatal missing-parameter error, and init goes on
\* only with a path.
C7_UsageErrors ==
    /\ (argi >= 2 /\ ~IsConfigToken(argv[1]))
          => (/\ pc = "failed"
              /\ failure.kind = "InvalidArgument"
              /\ failure.what \in NamedAs(argv[1]))
    /\ (pc = "failed" /\ failure.kind = "MissingParameter") => config_path = None
    /\ (pc # "args" /\ config_path = None)
          => (pc = "failed" /\ failure.kind \in {"InvalidArgument", "MissingParameter"})

\* C6 as stated: init does not return when a value of the merged working set
\* or an include path holds, anywhere, a "%{" with no following "}%" or a
\* "%{name}%" whose lowercased name is not in the macro table.
C6_AnyBadReferenceIsFatal ==
    pc = "done" =>
        /\ \A k \in DOMAIN WorkingSet : ~BadReference(WorkingSet[k], macros)
        /\ \A inc \in MainIncludes : ~BadReference(inc, macros)

\* The String replace_macros failed on: an include path or a value.
FailedOn ==
    IF target = "include" THEN MainIncludes
    ELSE IF failure.key \in DOMAIN WorkingSet THEN {WorkingSet[failure.key]}
    ELSE {}

\* C6 as amended: the references that count are those the left to right
\* scan reaches (from the start, and after a replaced reference from the
\* character after its "}%"). init does not return when a value of the
\* merged working set or an include path has such a reference unterminated
\* or naming no macro; a macro failure names the key (and the macro) of a
\* String that has that fault.
C6_ScannedBadReferenceIsFatal ==
    /\ pc = "done" =>
          /\ \A k \in DOMAIN WorkingSet : Scan(WorkingSet[k], 1, macros).fault = "ok"
          /\ \A inc \in MainIncludes : Scan(inc, 1, macros).fault = "ok"
    /\ (pc = "failed" /\ failure.kind = "UnknownMacro") =>
          /\ target = "include" <=> failure.key = INCLUDE_KEY
          /\ \E s \in FailedOn :
                /\ Scan(s, 1, macros).fault = "unknown"
                /\ Scan(s, 1, macros).what = failure.what
    /\ (pc = "failed" /\ failure.kind = "UnterminatedMacro") =>
          /\ target = "include" <=> failure.key = INCLUDE_KEY
          /\ \E s \in FailedOn :
                /\ Scan(s, 1, macros).fault = "unterminated"
                /\ Scan(s, 1, macros).what = failure.what

\* init was ended by an unknown macro met after a replaced reference.
C6_Witness ==
    /\ pc = "failed"
    /\ failure.kind = "UnknownMacro"
    /\ failure.key = KeyK
    /\ Scan(WorkingSet[KeyK], 1, macros).used # {}
    /\ BadReference(WorkingSet[KeyK], macros)

\* The String replace_macros is working on, as it was when called.
Original == IF target = "include" THEN picked ELSE config_keys[key]

\* C8: substitution is one pass over the original text: the rest of the
\* input is always a suffix of the original, and the value returned is the
\* original with each reference replaced by its macro's value as it stands.
C8_SinglePass ==
    /\ pc = "loop" => IsSuffix(value, Original)
    /\ pc = "done" =>
          \A k \in DOMAIN config_keys :
              config_keys[k] = Scan(WorkingSet[k], 1, macros).out

\* foo = "%{bar}%" with bar defined: "%{foo}%" came out as "%{bar}%".
C8_Witness ==
    /\ pc = "done"
    /\ <<"a", "a">> \in DOMAIN macros
    /\ <<"a">> \in DOMAIN macros
    /\ macros[<<"a">>] = RefAA
    /\ MainKeys[KeyK] = RefA
    /\ config_keys[KeyK] = RefAA

Range(f) == {f[x] : x \in DOMAIN f}

\* C9: from the partition on the macro table is the main file's, included
\* files add nothing to it; no value is substituted before the includes are
\* merged; when init returns every key of the working set went through
\* replace_macros once and every reference resolved against the main
\* file's table.
C9_MainFileMacroTable ==
    /\ AfterPartition => macros = MainMacroTable
    /\ pc \in {"include", "read"} => visited = <<>>
    /\ pc = "done" =>
          /\ Range(visited) = DOMAIN WorkingSet
          /\ Len(visited) = Cardinality(DOMAIN WorkingSet)
          /\ \A k \in DOMAIN WorkingSet :
                Scan(WorkingSet[k], 1, MainMacroTable).fault = "ok"

\* A value referenced a macro that only an included file defines: fatal.
C9_Witness ==
    /\ pc = "failed"
    /\ failure.kind = "UnknownMacro"
    /\ target = "value"
    /\ \E i \in 1..Len(loaded) :
          MACROS_PREFIX \o to_ascii_lowercase(failure.what) \in DOMAIN FileKeys(i)

Terminated == pc \in {"done", "failed"}

\* C10: every iteration of the scan loop that continues leaves a shorter
\* rest of the input, and init always ends: it returns or the process is
\* terminated.
C10_LoadingCompletes ==
    /\ [][(pc = "loop" /\ pc' = "loop") => Len(value') < Len(value)]_vars
    /\ <>Terminated

\* init returned under a macro whose text references itself, after
\* replacing a reference to it.
C10_Witness ==
    /\ pc = "done"
    /\ <<"a">> \in DOMAIN macros
    /\ macros[<<"a">>] = RefA
    /\ Scan(MainKeys[KeyK], 1, macros).used # {}

====
